---- MODULE Spec2Model ----
(***************************************************************************)
(* Model of pyrasterframes/rf_ipython.py: the PNG renderer (tile_to_png),  *)
(* the HTML image wrapper (tile_to_html), the table HTML formatter         *)
(* (pandas_df_to_html) and the import-time registration of that formatter  *)
(* in the interactive shell's text/html formatter registry.                *)
(*                                                                         *)
(* Strings that the code builds are records [head, data, tail]: head and   *)
(* tail are literal text, data is a sequence of ASCII codes (the base64    *)
(* text).  Byte strings are sequences of numbers 0..255.                   *)
(***************************************************************************)
EXTENDS Integers, Sequences, FiniteSets

VARIABLES
    \* ---- process-wide state owned by pandas and the interactive shell
    options,               \* pandas display options (pd.get_option / pd.set_option)
    shell,                 \* "absent" | "running": is an IPython shell running
    pandas_importable,     \* does "import pandas" succeed in this process
    registry,              \* text/html formatter registered for pandas.DataFrame
    loaded,                \* has the module body (lines 21-110) run
    load_result,           \* "not_run" | "ok" | "raise": how the module load ended
    \* ---- one pandas_df_to_html call (calls are serialized by the shell)
    pc,                    \* position in pandas_df_to_html, "idle" between calls
    df,                    \* the table passed to the call
    before,                \* the display options when the call was entered
    tile_cols,             \* local tile_cols (lines 72-75)
    default_max_colwidth,  \* local default_max_colwidth (line 88)
    to_html_args,          \* max_rows, max_cols, show_dimensions handed to df.to_html
    pending,               \* cells df.to_html still has to format, in order
    rendered,              \* cells df.to_html has formatted so far
    result,                \* what the last call returned or raised
    calls,                 \* what the last call called
    \* ---- a direct use of tile_to_png / tile_to_html on one tile
    tile,                  \* the tile passed in
    tpc,                   \* "start" | "png" | "html" | "decoded"
    png_bits,              \* what tile_to_png(tile) gave
    html,                  \* what tile_to_html(tile) gave
    decoded                \* base64-decoding of the data of html

vars == <<options, shell, pandas_importable, registry, loaded, load_result,
          pc, df, before, tile_cols, default_max_colwidth, to_html_args,
          pending, rendered, result, calls,
          tile, tpc, png_bits, html, decoded>>

formatter_vars == <<options, shell, pandas_importable, registry, loaded, load_result,
                    pc, df, before, tile_cols, default_max_colwidth, to_html_args,
                    pending, rendered, result, calls>>

tile_vars == <<tile, tpc, png_bits, html, decoded>>

(***************************************************************************)
(* Bounds                                                                  *)
(***************************************************************************)
\* longest cell grid (in bytes) of a tile handed to tile_to_png directly
MaxCells == 3
\* most rows of a table handed to pandas_df_to_html
MaxRows == 2

\* byte values a cell grid is built from
CellBytes == {0, 1, 255}

(***************************************************************************)
(* Strings                                                                 *)
(***************************************************************************)
Str(s) == [head |-> s, data |-> <<>>, tail |-> ""]

\* b64_img_html = '<img src="data:image/png;base64,{}" />' around the {}
ImgHead == "<img src=\"data:image/png;base64,"
ImgTail == "\" />"

\* str.format on b64_img_html
FormatImg(b64) == [head |-> ImgHead, data |-> b64, tail |-> ImgTail]

NEWLINE == 10

\* str.replace('\n', '')
RECURSIVE RemoveNewlines(_)
RemoveNewlines(s) ==
    IF s = <<>> THEN <<>>
    ELSE IF Head(s) = NEWLINE THEN RemoveNewlines(Tail(s))
    ELSE <<Head(s)>> \o RemoveNewlines(Tail(s))

(***************************************************************************)
(* base64 (RFC 4648, the standard alphabet), as base64.b64encode computes  *)
(* it, over ASCII codes                                                    *)
(***************************************************************************)
PAD == 61

\* the ASCII code of the base64 digit of a 6-bit value
B64Char(v) ==
    IF v < 26 THEN 65 + v
    ELSE IF v < 52 THEN 97 + (v - 26)
    ELSE IF v < 62 THEN 48 + (v - 52)
    ELSE IF v = 62 THEN 43
    ELSE 47

\* the 6-bit value of a base64 digit
B64Value(c) ==
    IF c >= 65 /\ c <= 90 THEN c - 65
    ELSE IF c >= 97 /\ c <= 122 THEN c - 97 + 26
    ELSE IF c >= 48 /\ c <= 57 THEN c - 48 + 52
    ELSE IF c = 43 THEN 62
    ELSE 63

RECURSIVE b64encode(_)
b64encode(bytes) ==
    IF bytes = <<>> THEN <<>>
    ELSE IF Len(bytes) = 1 THEN
        <<B64Char(bytes[1] \div 4), B64Char((bytes[1] % 4) * 16), PAD, PAD>>
    ELSE IF Len(bytes) = 2 THEN
        <<B64Char(bytes[1] \div 4),
          B64Char((bytes[1] % 4) * 16 + bytes[2] \div 16),
          B64Char((bytes[2] % 16) * 4), PAD>>
    ELSE
        <<B64Char(bytes[1] \div 4),
          B64Char((bytes[1] % 4) * 16 + bytes[2] \div 16),
          B64Char((bytes[2] % 16) * 4 + bytes[3] \div 64),
          B64Char(bytes[3] % 64)>>
        \o b64encode(SubSeq(bytes, 4, Len(bytes)))

\* base64.b64decode of well-formed base64 text (groups of four digits)
RECURSIVE b64decode(_)
b64decode(s) ==
    IF Len(s) < 4 THEN <<>>
    ELSE
        LET a == B64Value(s[1])
            b == B64Value(s[2])
            c == B64Value(s[3])
            d == B64Value(s[4])
            rest == b64decode(SubSeq(s, 5, Len(s)))
        IN  IF s[3] = PAD THEN <<a * 4 + b \div 16>> \o rest
            ELSE IF s[4] = PAD THEN
                <<a * 4 + b \div 16, (b % 16) * 16 + c \div 4>> \o rest
            ELSE <<a * 4 + b \div 16, (b % 16) * 16 + c \div 4, (c % 4) * 64 + d>>
                 \o rest

(***************************************************************************)
(* Values of table cells: tiles and other objects                          *)
(***************************************************************************)
\* tile.cells is None
NoCells == [present |-> FALSE, grid |-> <<>>, malformed |-> FALSE]

Cells(g) == [present |-> TRUE, grid |-> g, malformed |-> FALSE]

\* cell data the plotting backend fails on (imshow / print_png raise)
MalformedCells == [present |-> TRUE, grid |-> <<>>, malformed |-> TRUE]

\* a pyrasterframes.rf_types.Tile
Tile(c) == [type |-> "Tile", cells |-> c, repr |-> "Tile(...)"]

\* any other object a cell can hold
Other(r) == [type |-> "Other", cells |-> NoCells, repr |-> r]

\* isinstance(t, pyrasterframes.rf_types.Tile)
IsTile(v) == v.type = "Tile"

Grids(n) == UNION {[1..k -> CellBytes] : k \in 0..n}

TileInputs == {Tile(NoCells), Tile(MalformedCells)} \cup {Tile(Cells(g)) : g \in Grids(MaxCells)}

(***************************************************************************)
(* tile_to_png                                                             *)
(***************************************************************************)
\* the eight bytes every PNG file starts with
PngSignature == <<137, 80, 78, 71, 13, 10, 26, 10>>

\* canvas.print_png of the figure drawn from the cell grid: a PNG file whose
\* content is determined by the grid
print_png(cells) == PngSignature \o cells.grid

NoBytes == <<>>

\* "if tile.cells is None"
CellsAbsent_never(t) == FALSE

CellsAbsent(t) == ~t.cells.present

\* tile_to_png(tile): what it returns or raises, the attributes of the tile it
\* read and whether it used the plotting backend
tile_to_png(t) ==
    IF CellsAbsent(t) THEN
        [kind |-> "None", bytes |-> NoBytes, reads |-> {"cells"}, backend |-> FALSE]
    ELSE IF ~t.cells.present \/ t.cells.malformed THEN
        \* dimensions() of a tile without a grid, or the backend on bad data
        [kind |-> "raise", bytes |-> NoBytes,
         reads |-> {"cells", "dimensions"}, backend |-> TRUE]
    ELSE
        [kind |-> "bytes", bytes |-> print_png(t.cells),
         reads |-> {"cells", "dimensions", "cell_type"}, backend |-> TRUE]

(***************************************************************************)
(* tile_to_html                                                            *)
(***************************************************************************)
NoStr == Str("")

\* padding stripped from the encoded text
b64_png_unpadded(png_bytes) == SelectSeq(b64encode(png_bytes), LAMBDA c : c # PAD)

\* b64_png = base64.b64encode(png_bits).decode('utf-8').replace('\n', '')
b64_png(png_bytes) == RemoveNewlines(b64encode(png_bytes))

\* tile_to_html with a guard for the tile that has no image: an empty tag
tile_to_html_guarded(t) ==
    LET png == tile_to_png(t) IN
    IF png.kind = "raise" THEN
        [kind |-> "raise", str |-> NoStr, error |-> "backend"]
    ELSE IF png.kind = "None" THEN
        [kind |-> "str", str |-> FormatImg(<<>>), error |-> ""]
    ELSE
        [kind |-> "str", str |-> FormatImg(b64_png(png.bytes)), error |-> ""]

\* tile_to_html(tile): the string it returns, or the error it ends in
tile_to_html(t) ==
    LET png == tile_to_png(t) IN
    IF png.kind = "raise" THEN
        [kind |-> "raise", str |-> NoStr, error |-> "backend"]
    ELSE IF png.kind = "None" THEN
        \* base64.b64encode(None) raises TypeError
        [kind |-> "raise", str |-> NoStr, error |-> "TypeError"]
    ELSE
        [kind |-> "str",
         str |-> FormatImg(b64_png(png.bytes)),
         error |-> ""]

(***************************************************************************)
(* pandas display options                                                  *)
(***************************************************************************)
\* the value pandas_df_to_html sets display.max_colwidth to: no truncation
UNBOUNDED == -1

\* max_rows / max_columns: 0 stands for None (no limit), n > 0 for a limit of n
\* max_colwidth: 50 is the width pandas truncates a cell to unless told otherwise
ColwidthValues == {50, UNBOUNDED}
MaxRowsValues == {0, 1, 2}
MaxColumnsValues == {0, 1}

Options == [max_colwidth : ColwidthValues, notebook_repr_html : BOOLEAN,
            max_rows : MaxRowsValues, max_columns : MaxColumnsValues,
            show_dimensions : BOOLEAN]

DefaultOptions == [max_colwidth |-> 50, notebook_repr_html |-> TRUE,
                   max_rows |-> 0, max_columns |-> 0, show_dimensions |-> FALSE]

\* pd.get_option("display.<name>")
get_option(opts, name) == opts[name]

\* a set_option that writes the row limit whatever the name
set_option_max_rows(opts, name, value) == [opts EXCEPT !["max_rows"] = value]

\* pd.set_option("display.<name>", value)
set_option(opts, name, value) == [opts EXCEPT ![name] = value]

(***************************************************************************)
(* Tables                                                                  *)
(***************************************************************************)
\* the values a table cell holds: a tile with a grid, a tile without one, a
\* tile the backend fails on, and an object that is no tile
GoodTile == Tile(Cells(<<1, 255>>))
EmptyTile == Tile(NoCells)
CellValues == {GoodTile, EmptyTile, Other("'x'")}

\* column labels are 1..ncols
ColumnCounts == {1, 2}

\* a table: rows[r][c] is the value in row r of column c (row 1 is df.iloc[0])
Tables == UNION {UNION {[ncols : {nc}, rows : [1..n -> [1..nc -> CellValues]]]
                        : n \in 0..MaxRows} : nc \in ColumnCounts}

EmptyTable == [ncols |-> 1, rows |-> <<>>]

\* len(df)
NRows(d) == Len(d.rows)

\* df.columns
Columns(d) == 1..d.ncols

\* df.iloc[0][c]
FirstRowValue(d, c) == d.rows[1][c]

\* a scan of the whole column: tile-bearing if any of its rows holds a Tile
any_row_tile_columns(d) ==
    {c \in Columns(d) : \E r \in 1..NRows(d) : IsTile(d.rows[r][c])}

\* "for c in df.columns: if isinstance(df.iloc[0][c], Tile): tile_cols.append(c)"
first_row_tile_columns(d) == {c \in Columns(d) : IsTile(FirstRowValue(d, c))}

\* _safe_tile_to_html(t), the per-cell formatter of the tile columns
_safe_tile_to_html(t) ==
    IF IsTile(t) THEN tile_to_html(t)
    ELSE [kind |-> "str", str |-> Str(t.repr), error |-> ""]

\* what _safe_tile_to_html(t) calls
SafeCalls(t) ==
    IF IsTile(t) THEN {"_safe_tile_to_html", "tile_to_html", "tile_to_png"}
    ELSE {"_safe_tile_to_html", "__repr__"}

(***************************************************************************)
(* df.to_html: which cells it formats, in which order                      *)
(***************************************************************************)
\* the positions 1..n a limit of m leaves on display: all of them without a
\* limit or within it, else the first m \div 2 and the last m \div 2 (the first
\* one alone for a limit of 1)
Displayed(n, m) ==
    IF m = 0 \/ n <= m THEN 1..n
    ELSE IF m = 1 THEN {1}
    ELSE (1..(m \div 2)) \cup ((n - (m \div 2) + 1)..n)

RECURSIVE Ascending(_)
Ascending(S) ==
    IF S = {} THEN <<>>
    ELSE LET x == CHOOSE y \in S : \A z \in S : y <= z
         IN  <<x>> \o Ascending(S \ {x})

RECURSIVE Flatten(_)
Flatten(ss) == IF ss = <<>> THEN <<>> ELSE Head(ss) \o Flatten(Tail(ss))

\* the cells df.to_html(max_rows, max_cols) formats, column by column
DisplayedCells(d, max_rows, max_cols) ==
    LET rs == Ascending(Displayed(NRows(d), max_rows))
        cs == Ascending(Displayed(d.ncols, max_cols))
    IN  Flatten([i \in 1..Len(cs) |->
                   [j \in 1..Len(rs) |-> [row |-> rs[j], col |-> cs[i]]]])

\* one cell as df.to_html formats it: by the column's formatter if it has one,
\* else by the value's own text
FormatValue(v, col, formatters) ==
    IF col \in formatters THEN _safe_tile_to_html(v)
    ELSE [kind |-> "str", str |-> Str(v.repr), error |-> ""]

(***************************************************************************)
(* Results of a call                                                       *)
(***************************************************************************)
NoArgs == [max_rows |-> 0, max_cols |-> 0, show_dimensions |-> FALSE, given |-> FALSE]

NoResult == [kind |-> "none", cells |-> <<>>, ncols |-> 0, error |-> ""]
ReturnNone == [kind |-> "None", cells |-> <<>>, ncols |-> 0, error |-> ""]
Raise(e) == [kind |-> "raise", cells |-> <<>>, ncols |-> 0, error |-> e]

\* df._repr_html_(), the table's default HTML representation
_repr_html_(d) == [kind |-> "repr_html", cells |-> <<>>, ncols |-> d.ncols, error |-> ""]

\* the string df.to_html assembled from the formatted cells
ReturnHtml(d, cells) == [kind |-> "html", cells |-> cells, ncols |-> d.ncols, error |-> ""]

(***************************************************************************)
(* pandas_df_to_html, lines 62-99                                          *)
(***************************************************************************)
\* line 66 without its "not"
notebook_repr_html_disabled_inverted(opts) == get_option(opts, "notebook_repr_html")

\* "if not pd.get_option("display.notebook_repr_html")"
notebook_repr_html_disabled(opts) == ~get_option(opts, "notebook_repr_html")

\* the emptiness test taking a one-row table for the empty one
is_empty_off_by_one(d) == NRows(d) = 1

\* "if len(df) == 0"
is_empty(d) == NRows(d) = 0

\* max_rows, max_cols and show_dimensions as lines 94-96 read them
to_html_options(opts) ==
    [max_rows |-> get_option(opts, "max_rows"),
     max_cols |-> get_option(opts, "max_columns"),
     show_dimensions |-> get_option(opts, "show_dimensions"),
     given |-> TRUE]

\* a call can start: the module is loaded and no other call is running
CanEnter ==
    /\ pc = "idle"
    /\ loaded
    /\ result.kind = "none"

\* a call starts: the argument is bound, nothing of an earlier call is left
Enter(d) ==
    /\ df' = d
    /\ before' = options
    /\ default_max_colwidth' = 0
    /\ to_html_args' = NoArgs
    /\ pending' = <<>>
    /\ rendered' = <<>>
    /\ UNCHANGED <<shell, pandas_importable, registry, loaded, load_result, tile_vars>>

\* line 64: "import pandas as pd" raises ImportError
CallImportFails ==
    /\ CanEnter
    /\ ~pandas_importable
    /\ \E d \in Tables : Enter(d)
    /\ result' = Raise("ImportError")
    /\ calls' = {}
    /\ tile_cols' = {}
    /\ UNCHANGED <<options, pc>>

\* lines 66-67: the option is off, return None
CallReturnsNone ==
    /\ CanEnter
    /\ pandas_importable
    /\ notebook_repr_html_disabled(options)
    /\ \E d \in Tables : Enter(d)
    /\ result' = ReturnNone
    /\ calls' = {}
    /\ tile_cols' = {}
    /\ UNCHANGED <<options, pc>>

\* lines 69-70: no rows, return df._repr_html_()
CallReturnsReprHtml ==
    /\ CanEnter
    /\ pandas_importable
    /\ ~notebook_repr_html_disabled(options)
    /\ \E d \in Tables :
          /\ is_empty(d)
          /\ Enter(d)
          /\ result' = _repr_html_(d)
    /\ calls' = {"_repr_html_"}
    /\ tile_cols' = {}
    /\ UNCHANGED <<options, pc>>

\* lines 72-85: sample row 0 of every column, build the formatter dict
\* (df.iloc[0] of a table without rows raises IndexError)
CallDetectsTileColumns ==
    /\ CanEnter
    /\ pandas_importable
    /\ ~notebook_repr_html_disabled(options)
    /\ \E d \in Tables :
          /\ ~is_empty(d)
          /\ Enter(d)
          /\ IF NRows(d) = 0
             THEN /\ result' = Raise("IndexError")
                  /\ tile_cols' = {}
                  /\ pc' = "idle"
             ELSE /\ result' = NoResult
                  /\ tile_cols' = first_row_tile_columns(d)
                  /\ pc' = "l88"
    /\ calls' = {"iloc"}
    /\ UNCHANGED options

\* line 88: default_max_colwidth = pd.get_option('display.max_colwidth')
SaveColwidth ==
    /\ pc = "l88"
    /\ default_max_colwidth' = get_option(options, "max_colwidth")
    /\ pc' = "l89"
    /\ UNCHANGED <<options, shell, pandas_importable, registry, loaded, load_result,
                   df, before, tile_cols, to_html_args, pending, rendered, result,
                   calls, tile_vars>>

\* line 89: pd.set_option('display.max_colwidth', -1)
SetUnbounded ==
    /\ pc = "l89"
    /\ options' = set_option(options, "max_colwidth", UNBOUNDED)
    /\ calls' = calls \cup {"set_option"}
    /\ pc' = "l90"
    /\ UNCHANGED <<shell, pandas_importable, registry, loaded, load_result,
                   df, before, tile_cols, default_max_colwidth, to_html_args,
                   pending, rendered, result, tile_vars>>

\* lines 90-97: the arguments are read from the options and df.to_html starts
CallToHtml ==
    /\ pc = "l90"
    /\ to_html_args' = to_html_options(options)
    /\ pending' = DisplayedCells(df, to_html_args'.max_rows, to_html_args'.max_cols)
    /\ rendered' = <<>>
    /\ calls' = calls \cup {"to_html"}
    /\ pc' = "to_html"
    /\ UNCHANGED <<options, shell, pandas_importable, registry, loaded, load_result,
                   df, before, tile_cols, default_max_colwidth, result, tile_vars>>

\* the value of the cell df.to_html formats next
NextValue == df.rows[Head(pending).row][Head(pending).col]

\* what formatting that cell gives (formatter = {c: _safe_tile_to_html for c in tile_cols})
NextText == FormatValue(NextValue, Head(pending).col, tile_cols)

NextCalls ==
    IF Head(pending).col \in tile_cols THEN SafeCalls(NextValue) ELSE {}

\* inside df.to_html: one cell is formatted and its text kept
FormatCell ==
    /\ pc = "to_html"
    /\ pending # <<>>
    /\ NextText.kind = "str"
    /\ rendered' = Append(rendered,
                          [row |-> Head(pending).row, col |-> Head(pending).col,
                           text |-> NextText.str,
                           max_colwidth |-> get_option(options, "max_colwidth")])
    /\ pending' = Tail(pending)
    /\ calls' = calls \cup NextCalls
    /\ UNCHANGED <<options, shell, pandas_importable, registry, loaded, load_result,
                   pc, df, before, tile_cols, default_max_colwidth, to_html_args,
                   result, tile_vars>>

\* inside df.to_html: the cell's formatter raises; nothing between line 90 and
\* the caller catches it, so the call ends there and line 98 is not reached
FormatCellRaises ==
    /\ pc = "to_html"
    /\ pending # <<>>
    /\ NextText.kind = "raise"
    /\ result' = Raise(NextText.error)
    /\ calls' = calls \cup NextCalls
    /\ pending' = <<>>
    /\ rendered' = <<>>
    /\ pc' = "idle"
    /\ UNCHANGED <<options, shell, pandas_importable, registry, loaded, load_result,
                   df, before, tile_cols, default_max_colwidth, to_html_args,
                   tile_vars>>

\* df.to_html returns the assembled string to line 90
ToHtmlReturns ==
    /\ pc = "to_html"
    /\ pending = <<>>
    /\ pc' = "l98"
    /\ UNCHANGED <<options, shell, pandas_importable, registry, loaded, load_result,
                   df, before, tile_cols, default_max_colwidth, to_html_args,
                   pending, rendered, result, calls, tile_vars>>

\* lines 98-99: put display.max_colwidth back and return the string
RestoreColwidth ==
    /\ pc = "l98"
    /\ options' = set_option(options, "max_colwidth", default_max_colwidth)
    /\ result' = ReturnHtml(df, rendered)
    /\ pc' = "idle"
    /\ UNCHANGED <<shell, pandas_importable, registry, loaded, load_result,
                   df, before, tile_cols, default_max_colwidth, to_html_args,
                   pending, rendered, calls, tile_vars>>

(***************************************************************************)
(* Module load, lines 102-110                                              *)
(***************************************************************************)
\* an except clause that catches nothing
Catches_nothing(exc) == FALSE

\* "except ImportError: pass"
Catches(exc) == exc = "ImportError"

\* html_formatter.for_type(pandas.DataFrame, func): func replaces what was there
for_type(current, func) == func

\* how the try statement ends when its body raises exc
TryEnds(exc) == IF Catches(exc) THEN "ok" ELSE "raise"

LoadFrame ==
    UNCHANGED <<options, shell, pandas_importable, pc, df, before, tile_cols,
                default_max_colwidth, to_html_args, pending, rendered, result,
                calls, tile_vars>>

\* line 103: IPython is not installed, the import raises ImportError
LoadImportFails ==
    /\ ~loaded /\ pc = "idle"
    /\ shell = "absent"
    /\ load_result' = TryEnds("ImportError")
    /\ loaded' = (load_result' = "ok")
    /\ UNCHANGED registry
    /\ LoadFrame

\* line 105: get_ipython() returns None, no shell is running
LoadNoShell ==
    /\ ~loaded /\ pc = "idle"
    /\ shell = "absent"
    /\ load_result' = "ok"
    /\ loaded' = TRUE
    /\ UNCHANGED registry
    /\ LoadFrame

\* line 106: a shell is running but "import pandas" raises ImportError
LoadPandasMissing ==
    /\ ~loaded /\ pc = "idle"
    /\ shell = "running"
    /\ ~pandas_importable
    /\ load_result' = TryEnds("ImportError")
    /\ loaded' = (load_result' = "ok")
    /\ UNCHANGED registry
    /\ LoadFrame

\* lines 107-108: the formatter is registered for pandas.DataFrame
LoadRegisters ==
    /\ ~loaded /\ pc = "idle"
    /\ shell = "running"
    /\ pandas_importable
    /\ registry' = for_type(registry, "pandas_df_to_html")
    /\ load_result' = "ok"
    /\ loaded' = TRUE
    /\ LoadFrame

(***************************************************************************)
(* The user, between display calls                                         *)
(***************************************************************************)
\* the user changes display options (pd.set_option) between two display calls
UserSetsOptions ==
    /\ pc = "idle"
    /\ pandas_importable
    /\ result.kind = "none"
    /\ \E o \in Options :
          /\ o # options
          /\ options' = o
          /\ before' = o
    /\ UNCHANGED <<shell, pandas_importable, registry, loaded, load_result, pc, df,
                   tile_cols, default_max_colwidth, to_html_args, pending, rendered,
                   result, calls, tile_vars>>

\* the shell takes what the call returned or raised and displays it; the call's
\* frame is gone
ShellTakesResult ==
    /\ pc = "idle"
    /\ result.kind # "none"
    /\ result' = NoResult
    /\ df' = EmptyTable
    /\ before' = options
    /\ tile_cols' = {}
    /\ default_max_colwidth' = 0
    /\ to_html_args' = NoArgs
    /\ pending' = <<>>
    /\ rendered' = <<>>
    /\ calls' = {}
    /\ UNCHANGED <<options, shell, pandas_importable, registry, loaded, load_result,
                   pc, tile_vars>>

(***************************************************************************)
(* Direct use of tile_to_png and tile_to_html on one tile                  *)
(***************************************************************************)
NoPng == [kind |-> "none", bytes |-> NoBytes, reads |-> {}, backend |-> FALSE]
NoHtml == [kind |-> "none", str |-> NoStr, error |-> ""]

\* png_bits = tile_to_png(tile)
CallTileToPng ==
    /\ tpc = "start"
    /\ png_bits' = tile_to_png(tile)
    /\ tpc' = "png"
    /\ UNCHANGED <<tile, html, decoded, formatter_vars>>

\* html = tile_to_html(tile)
CallTileToHtml ==
    /\ tpc = "png"
    /\ html' = tile_to_html(tile)
    /\ tpc' = "html"
    /\ UNCHANGED <<tile, png_bits, decoded, formatter_vars>>

\* the reader of the returned tag base64-decodes its data
DecodeHtml ==
    /\ tpc = "html"
    /\ html.kind = "str"
    /\ decoded' = b64decode(html.str.data)
    /\ tpc' = "decoded"
    /\ UNCHANGED <<tile, png_bits, html, formatter_vars>>

(***************************************************************************)
(* Specifications                                                          *)
(***************************************************************************)
InitFormatter ==
    /\ shell \in {"absent", "running"}
    /\ pandas_importable \in BOOLEAN
    /\ options \in (IF pandas_importable THEN Options ELSE {DefaultOptions})
    /\ registry \in (IF shell = "running" THEN {"unset", "other"} ELSE {"unset"})
    /\ loaded = FALSE
    /\ load_result = "not_run"
    /\ pc = "idle"
    /\ df = EmptyTable
    /\ before = options
    /\ tile_cols = {}
    /\ default_max_colwidth = 0
    /\ to_html_args = NoArgs
    /\ pending = <<>>
    /\ rendered = <<>>
    /\ result = NoResult
    /\ calls = {}

InitTile ==
    /\ tpc = "start"
    /\ png_bits = NoPng
    /\ html = NoHtml
    /\ decoded = <<>>

\* the module in a process: it is loaded, then the shell calls the formatter
Init ==
    /\ InitFormatter
    /\ InitTile
    /\ tile = Tile(NoCells)

Next ==
    \/ LoadImportFails
    \/ LoadNoShell
    \/ LoadPandasMissing
    \/ LoadRegisters
    \/ UserSetsOptions
    \/ CallImportFails
    \/ CallReturnsNone
    \/ CallReturnsReprHtml
    \/ CallDetectsTileColumns
    \/ SaveColwidth
    \/ SetUnbounded
    \/ CallToHtml
    \/ FormatCell
    \/ FormatCellRaises
    \/ ToHtmlReturns
    \/ RestoreColwidth
    \/ ShellTakesResult

Spec == Init /\ [][Next]_vars

\* tile_to_png and tile_to_html applied to every tile of TileInputs
InitTiles ==
    /\ InitTile
    /\ tile \in TileInputs
    /\ shell = "absent"
    /\ pandas_importable = TRUE
    /\ options = DefaultOptions
    /\ registry = "unset"
    /\ loaded = FALSE
    /\ load_result = "not_run"
    /\ pc = "idle"
    /\ df = EmptyTable
    /\ before = options
    /\ tile_cols = {}
    /\ default_max_colwidth = 0
    /\ to_html_args = NoArgs
    /\ pending = <<>>
    /\ rendered = <<>>
    /\ result = NoResult
    /\ calls = {}

NextTiles == CallTileToPng \/ CallTileToHtml \/ DecodeHtml

SpecTiles == InitTiles /\ [][NextTiles]_vars

(***************************************************************************)
(* Properties                                                              *)
(***************************************************************************)
\* a call has ended and the shell has not yet taken its result
Ended == pc = "idle" /\ result.kind # "none"

\* the text is an <img src="data:image/png;base64,..." /> tag
IsImg(text) == text.head = ImgHead /\ text.tail = ImgTail

\* the tile has no cell grid
Gridless(v) == IsTile(v) /\ ~v.cells.present

\* the tile has a cell grid the backend can draw
Drawable(v) == IsTile(v) /\ v.cells.present /\ ~v.cells.malformed

\* the positions of the table, and those inside the limits the call was entered with
AllCells(d) == {[row |-> r, col |-> c] : r \in 1..NRows(d), c \in 1..d.ncols}
CellsOnDisplay(d) ==
    {x \in AllCells(d) : /\ x.row \in Displayed(NRows(d), before.max_rows)
                          /\ x.col \in Displayed(d.ncols, before.max_columns)}

\* a position of a column whose row-0 value is a Tile, holding a tile without a grid
GridlessInTileColumn(d, x) ==
    /\ IsTile(d.rows[1][x.col])
    /\ Gridless(d.rows[x.row][x.col])

\* C1: after a call on a table with at least one row, with the notebook-HTML
\* option enabled, display.max_colwidth has the value it had before the call,
\* whether the call returned or raised.
C1_ColwidthRestored ==
    (Ended /\ pandas_importable /\ before.notebook_repr_html /\ NRows(df) > 0)
        => options.max_colwidth = before.max_colwidth

\* C2: with display.notebook_repr_html disabled the call returns None for every
\* table, and calls neither the table's renderers nor tile_to_html: it ends in
\* its first step, so no other position of the call is ever seen.
C2_DisabledReturnsNone ==
    (pandas_importable /\ ~before.notebook_repr_html)
        => /\ pc = "idle"
           /\ result.kind \in {"none", "None"}
           /\ calls = {}
           /\ options = before

C2_Witness ==
    /\ Ended
    /\ ~before.notebook_repr_html
    /\ result = ReturnNone
    /\ \E x \in AllCells(df) : GridlessInTileColumn(df, x)

\* C3: with the option enabled and a table of zero rows, the call returns exactly
\* df._repr_html_(), samples no first row and never sets display.max_colwidth.
C3_EmptyTableDefaultRepr ==
    (Ended /\ pandas_importable /\ before.notebook_repr_html /\ NRows(df) = 0)
        => /\ result = _repr_html_(df)
           /\ calls = {"_repr_html_"}
           /\ options = before

C3_Witness ==
    /\ Ended
    /\ before.notebook_repr_html
    /\ NRows(df) = 0
    /\ df.ncols = 2
    /\ result.kind = "repr_html"

\* what C4 says of one formatted cell
CellAsClaimed(d, c) ==
    LET v == d.rows[c.row][c.col]
        first == d.rows[1][c.col]
    IN  /\ IsImg(c.text) <=> (IsTile(first) /\ IsTile(v))
        /\ (IsTile(first) /\ ~IsTile(v)) => c.text = Str(v.repr)
        /\ (~IsTile(first) /\ IsTile(v)) => c.text = Str(v.repr)

\* C4: in the HTML of a non-empty table a cell is an <img> tag exactly if row 0
\* of its column is a Tile and the cell is a Tile; a non-Tile cell of such a
\* column is its repr, and a Tile cell of a column whose row 0 is no Tile is its
\* raw representation. The HTML holds every cell inside the display limits.
C4_ImgIffFirstRowTileAndTile ==
    /\ \A i \in 1..Len(rendered) : CellAsClaimed(df, rendered[i])
    /\ (Ended /\ result.kind = "html")
          => /\ \A i \in 1..Len(result.cells) : CellAsClaimed(df, result.cells[i])
             /\ {[row |-> result.cells[i].row, col |-> result.cells[i].col]
                    : i \in 1..Len(result.cells)} = CellsOnDisplay(df)

C4_Witness ==
    /\ Ended
    /\ result.kind = "html"
    /\ \E i, j, k \in 1..Len(result.cells) :
          /\ IsImg(result.cells[i].text)
          /\ result.cells[j].col = result.cells[i].col
          /\ ~IsTile(df.rows[result.cells[j].row][result.cells[j].col])
          /\ IsTile(df.rows[result.cells[k].row][result.cells[k].col])
          /\ ~IsTile(df.rows[1][result.cells[k].col])

\* C5: for a tile with a cell grid (that the backend draws) tile_to_html returns
\* '<img src="data:image/png;base64,' + XXXX + '" />' where XXXX has no line
\* break and base64-decodes to the bytes tile_to_png returns for the same tile.
C5_Base64RoundTrip ==
    /\ (tpc \in {"html", "decoded"} /\ Drawable(tile))
          => /\ html.kind = "str"
             /\ IsImg(html.str)
             /\ \A i \in 1..Len(html.str.data) : html.str.data[i] # NEWLINE
    /\ tpc = "decoded" => decoded = png_bits.bytes

C5_Witness ==
    /\ tpc = "decoded"
    /\ Len(tile.cells.grid) = 3
    /\ decoded = png_bits.bytes
    /\ PAD \in {html.str.data[i] : i \in 1..Len(html.str.data)}

\* C6: for a tile without a cell grid tile_to_png returns None having read
\* nothing of the tile but cells, and without the plotting backend; for a tile
\* with a cell grid it never returns None, and the bytes it returns are not empty.
C6_PngNoneIffNoCells ==
    tpc # "start"
        => /\ ~tile.cells.present
                => /\ png_bits.kind = "None"
                   /\ png_bits.reads = {"cells"}
                   /\ ~png_bits.backend
           /\ tile.cells.present => png_bits.kind \in {"bytes", "raise"}
           /\ Drawable(tile)
                => /\ png_bits.kind = "bytes"
                   /\ Len(png_bits.bytes) >= Len(PngSignature)
                   /\ SubSeq(png_bits.bytes, 1, Len(PngSignature)) = PngSignature

C6_Witness ==
    /\ tpc = "png"
    /\ ~tile.cells.present
    /\ png_bits.kind = "None"

\* C7 as claimed: loading never fails, leaves the registry alone when no shell
\* runs, and with a shell running leaves pandas_df_to_html registered for
\* pandas.DataFrame.
C7_ShellImpliesRegistered ==
    /\ load_result # "raise"
    /\ shell = "absent" => registry = "unset"
    /\ (loaded /\ shell = "running") => registry = "pandas_df_to_html"

\* C7, amended: loading never fails; the registry is changed only by a load
\* that finds a shell running and pandas importable, after which the entry for
\* pandas.DataFrame is pandas_df_to_html; when the pandas import fails the load
\* still succeeds and registers nothing; the entry, once there, stays.
C7_RegisteredWhenShellAndPandas ==
    /\ [](/\ load_result # "raise"
          /\ shell = "absent" => registry = "unset"
          /\ (loaded /\ shell = "running" /\ pandas_importable)
                => registry = "pandas_df_to_html"
          /\ (loaded /\ ~pandas_importable) => registry # "pandas_df_to_html")
    /\ [][~(shell = "running" /\ pandas_importable) => registry' = registry]_vars
    /\ [][registry = "pandas_df_to_html" => registry' = "pandas_df_to_html"]_vars

C7_Witness ==
    /\ loaded
    /\ shell = "running"
    /\ registry = "pandas_df_to_html"
    /\ Ended
    /\ result.kind = "html"

\* C8: display.max_colwidth is unbounded (-1) while df.to_html runs, every cell
\* formatter sees it so, and outside that window the module leaves it as it
\* found it: it is not -1 unless it was -1 when the call was entered.
C8_UnboundedOnlyDuringRender ==
    /\ pc = "to_html" => options.max_colwidth = UNBOUNDED
    /\ \A i \in 1..Len(rendered) : rendered[i].max_colwidth = UNBOUNDED
    /\ (pc \in {"idle", "l88", "l89"} /\ before.max_colwidth # UNBOUNDED)
          => options.max_colwidth # UNBOUNDED

\* a step of a pandas_df_to_html call
InCall == pc # "idle" \/ pc' # "idle" \/ (result.kind = "none" /\ result'.kind # "none")

\* C9: no step of a pandas_df_to_html call changes a display option other than
\* max_colwidth, the formatter registry, or the table it was given; df.to_html
\* is given the max_rows, max_columns and show_dimensions options as they were
\* when the call was entered.
C9_OnlyColwidthTouched ==
    /\ [][InCall => /\ options'.notebook_repr_html = options.notebook_repr_html
                    /\ options'.max_rows = options.max_rows
                    /\ options'.max_columns = options.max_columns
                    /\ options'.show_dimensions = options.show_dimensions
                    /\ registry' = registry]_vars
    /\ [][pc # "idle" => df' = df]_vars
    /\ [](to_html_args.given
            => /\ to_html_args.max_rows = before.max_rows
               /\ to_html_args.max_cols = before.max_columns
               /\ to_html_args.show_dimensions = before.show_dimensions)
    /\ [](Ended => /\ options.notebook_repr_html = before.notebook_repr_html
                   /\ options.max_rows = before.max_rows
                   /\ options.max_columns = before.max_columns
                   /\ options.show_dimensions = before.show_dimensions)

C9_Witness ==
    /\ Ended
    /\ result.kind = "html"
    /\ to_html_args.given
    /\ to_html_args.max_rows = 1
    /\ to_html_args.max_cols = 1
    /\ to_html_args.show_dimensions
    /\ registry = "pandas_df_to_html"

\* C10 as claimed: tile_to_html gives no HTML for a tile without a cell grid
\* but ends in an error, and so does every call (with the option enabled) on a
\* table holding such a tile in a tile-bearing column.
C10_GridlessTileAlwaysRaises ==
    /\ \A t \in CellValues : Gridless(t) => tile_to_html(t).kind = "raise"
    /\ (/\ Ended /\ pandas_importable /\ before.notebook_repr_html
        /\ \E x \in AllCells(df) : GridlessInTileColumn(df, x))
          => result.kind = "raise"

\* C10, amended: tile_to_html gives no HTML for a tile without a cell grid but
\* ends in a TypeError, no cell of a rendering is such a tile's image, and a
\* call with the option enabled ends in that error when such a tile is in a
\* tile-bearing column at a position df.to_html formats (inside the max_rows
\* and max_columns limits).
C10_GridlessTileOnDisplayRaises ==
    /\ \A t \in CellValues :
          Gridless(t) => /\ tile_to_html(t).kind = "raise"
                         /\ tile_to_html(t).error = "TypeError"
    /\ \A i \in 1..Len(rendered) :
          ~GridlessInTileColumn(df, rendered[i])
    /\ (/\ Ended /\ pandas_importable /\ before.notebook_repr_html
        /\ \E x \in CellsOnDisplay(df) : GridlessInTileColumn(df, x))
          => /\ result.kind = "raise"
             /\ result.error = "TypeError"

C10_Witness ==
    /\ Ended
    /\ before.notebook_repr_html
    /\ result.kind = "raise"
    /\ result.error = "TypeError"
    /\ "tile_to_png" \in calls
    /\ \E x \in CellsOnDisplay(df) : x.row > 1 /\ GridlessInTileColumn(df, x)

====
